---- MODULE Spec2Model ----
(***************************************************************************)
(* The SDXL-Turbo gallery notebook (src/SDXL_Turbo_T2B.ipynb): the main    *)
(* cell generates number_of_images images with process_image, writes them  *)
(* into a temporary HTML file with create_html_page_with_images and opens  *)
(* that file with display_in_browser.                                      *)
(*                                                                         *)
(* Strings are sequences of tokens: a token is one character of the        *)
(* base64 alphabet or one literal piece of the program text (the Data URI  *)
(* prefix, the HTML head, the two halves of the <img> tag, the HTML tail). *)
(* Concatenation of strings is \o, so an f-string is the concatenation of  *)
(* its pieces and nothing marks where an interpolated value begins or ends.*)
(***************************************************************************)
EXTENDS Integers, Sequences, FiniteSets, TLC

\* ------------------------------------------------------------- bounds
\* largest number_of_images of a run of Spec
MaxImages == 2
\* executions of the main cell in one behaviour of Spec
MaxRuns == 2
\* a failing write leaves at most this many tokens of the document on disk
MaxPartial == 1
\* pixel bytes of an image returned by the pipeline in SpecEncode
MaxEncodeLen == 3
\* largest number_of_images of a run of SpecSession
MaxSessionImages == 11

\* ------------------------------------------------- program constants
num_inference_steps == 1
guidance_scale == 0
browser_new == 2
\* "up to 10 images per session" (markdown cell above the main cell)
SessionLimit == 10

DefaultPrompt == "Create candy land in a handy heaven."
Prompts == {DefaultPrompt, "A lighthouse at dawn."}

\* ------------------------------------------------------------- state
VARIABLES
  pc,                \* position of the main cell
  run,               \* number of this execution of the main cell
  prompt,            \* main: prompt
  number_of_images,  \* main: number_of_images
  comp,              \* the list the comprehension is building
  image_urls,        \* main: image_urls
  html_content,      \* create_html_page_with_images: html_content
  temp_file,         \* create_html_page_with_images: name of the open temp_file
  html_page_path,    \* main: html_page_path
  assigned,          \* the names of main that are bound
  raised,            \* the call whose failure ended the run, or "none"
  fs,                \* the temp directory: name -> content
  pipeline_calls,    \* this run's calls of pipeline(...)
  calls,             \* this run's calls of the two later functions
  created,           \* every file created so far: [run, name]
  galleries,         \* every returned gallery: [run, name, urls, content]
  browser            \* every webbrowser.open request: [run, url, new]

vars == << pc, run, prompt, number_of_images, comp, image_urls, html_content,
           temp_file, html_page_path, assigned, raised, fs, pipeline_calls,
           calls, created, galleries, browser >>

\* ------------------------------------------------------------ base64
Base64Alphabet ==
  << "A","B","C","D","E","F","G","H","I","J","K","L","M","N","O","P",
     "Q","R","S","T","U","V","W","X","Y","Z","a","b","c","d","e","f",
     "g","h","i","j","k","l","m","n","o","p","q","r","s","t","u","v",
     "w","x","y","z","0","1","2","3","4","5","6","7","8","9","+","/" >>

Base64Pad == "="

B64Char(sextet) == Base64Alphabet[sextet + 1]

B64Index(c) == CHOOSE i \in 0..63 : Base64Alphabet[i + 1] = c

\* b64encode with the "=" padding left out
RECURSIVE b64encodeUnpadded(_)
b64encodeUnpadded(bytes) ==
  IF Len(bytes) = 0 THEN << >>
  ELSE IF Len(bytes) = 1 THEN
    LET n == bytes[1] * 65536
    IN  << B64Char(n \div 262144), B64Char((n \div 4096) % 64) >>
  ELSE IF Len(bytes) = 2 THEN
    LET n == bytes[1] * 65536 + bytes[2] * 256
    IN  << B64Char(n \div 262144), B64Char((n \div 4096) % 64),
           B64Char((n \div 64) % 64) >>
  ELSE
    LET n == bytes[1] * 65536 + bytes[2] * 256 + bytes[3]
    IN  << B64Char(n \div 262144), B64Char((n \div 4096) % 64),
           B64Char((n \div 64) % 64), B64Char(n % 64) >>
        \o b64encodeUnpadded(SubSeq(bytes, 4, Len(bytes)))

\* base64.b64encode: three bytes make four characters; a last group of one
\* or two bytes is zero-filled and padded with "=".
RECURSIVE b64encode(_)
b64encode(bytes) ==
  IF Len(bytes) = 0 THEN << >>
  ELSE IF Len(bytes) = 1 THEN
    LET n == bytes[1] * 65536
    IN  << B64Char(n \div 262144), B64Char((n \div 4096) % 64),
           Base64Pad, Base64Pad >>
  ELSE IF Len(bytes) = 2 THEN
    LET n == bytes[1] * 65536 + bytes[2] * 256
    IN  << B64Char(n \div 262144), B64Char((n \div 4096) % 64),
           B64Char((n \div 64) % 64), Base64Pad >>
  ELSE
    LET n == bytes[1] * 65536 + bytes[2] * 256 + bytes[3]
    IN  << B64Char(n \div 262144), B64Char((n \div 4096) % 64),
           B64Char((n \div 64) % 64), B64Char(n % 64) >>
        \o b64encode(SubSeq(bytes, 4, Len(bytes)))

\* base64.b64decode, the inverse used to read a Data URI back: four
\* characters make three bytes, fewer when the group ends in "=".
RECURSIVE b64decode(_)
b64decode(chars) ==
  IF Len(chars) < 4 THEN << >>
  ELSE
    LET s3 == IF chars[3] = Base64Pad THEN 0 ELSE B64Index(chars[3])
        s4 == IF chars[4] = Base64Pad THEN 0 ELSE B64Index(chars[4])
        n  == B64Index(chars[1]) * 262144 + B64Index(chars[2]) * 4096
              + s3 * 64 + s4
        b1 == n \div 65536
        b2 == (n \div 256) % 256
        b3 == n % 256
        group == IF chars[3] = Base64Pad THEN << b1 >>
                 ELSE IF chars[4] = Base64Pad THEN << b1, b2 >>
                 ELSE << b1, b2, b3 >>
    IN  group \o b64decode(SubSeq(chars, 5, Len(chars)))

\* --------------------------------------------------------------- PNG
\* The eight signature bytes every PNG stream starts with.
PNG_SIGNATURE == << 137, 80, 78, 71, 13, 10, 26, 10 >>

\* image.save(img_buffer, format='PNG'); img_buffer.getvalue(): the PNG
\* stream of an image.  An image is its sequence of pixel bytes; the
\* stream is the signature followed by the (lossless) pixel data.
PngSave(image) == PNG_SIGNATURE \o image

IsPng(bytes) ==
  /\ Len(bytes) >= Len(PNG_SIGNATURE)
  /\ SubSeq(bytes, 1, Len(PNG_SIGNATURE)) = PNG_SIGNATURE

\* ---------------------------------------------------------- Data URI
DATA_URI_PREFIX == "data:image/png;base64,"

\* The value process_image returns for the image the pipeline produced.
DataUri(image) == << DATA_URI_PREFIX >> \o b64encode(PngSave(image))

\* ---------------------------------------------------------- the page
HTML_HEAD == "<!DOCTYPE html><html lang=\"en\"><head>...</head><body><h1>AI Generated Images Gallery</h1><div class=\"gallery\">"
IMG_OPEN == "<img src=\""
IMG_CLOSE == "\" alt=\"Generated Image\"/>"
HTML_TAIL == "</div></body></html>"

\* ImgTags with each tag put in front of the tags before it
RECURSIVE ImgTagsPrepended(_)
ImgTagsPrepended(urls) ==
  IF urls = << >> THEN << >>
  ELSE ImgTagsPrepended(Tail(urls)) \o << IMG_OPEN >> \o Head(urls) \o << IMG_CLOSE >>

\* for url in image_urls: html_content += f'<img src="{url}" .../>'
RECURSIVE ImgTags(_)
ImgTags(urls) ==
  IF urls = << >> THEN << >>
  ELSE << IMG_OPEN >> \o Head(urls) \o << IMG_CLOSE >> \o ImgTags(Tail(urls))

\* HtmlContent with the prompt of the run put into the page
HtmlContentWithPrompt(urls) ==
  << HTML_HEAD, prompt >> \o ImgTags(urls) \o << HTML_TAIL >>

\* html_content as create_html_page_with_images writes it
HtmlContent(urls) == << HTML_HEAD >> \o ImgTags(urls) \o << HTML_TAIL >>

\* ------------------------------------------------------- file system
TEMP_DIR == "/tmp/"
HTML_SUFFIX == ".html"
TempStems == {"tmpa", "tmpb", "tmpc"}

\* the names tempfile can generate: a random stem and the suffix
TempNames == { << s, HTML_SUFFIX >> : s \in TempStems }

\* temp_file.name: the absolute path of the file
PathOf(name) == << TEMP_DIR >> \o name

\* f'file://{html_file_path}'
FileUrl(path) == << "file://" >> \o path

\* a file another program left in the directory, under a name tempfile
\* could generate
ForeignName == << "tmpa", HTML_SUFFIX >>
ForeignContent == << "written by another program" >>

\* a directory is a function from the names in it to their contents
EmptyDir == [n \in {} |-> << >>]

WithFile(dir, name, content) ==
  [n \in DOMAIN dir \cup {name} |-> IF n = name THEN content ELSE dir[n]]

\* range(number_of_images) is empty for a count below one
RangeLen(n) == IF n > 0 THEN n ELSE 0

\* ---------------------------------------------------------- images
RECURSIVE SeqsUpTo(_, _)
SeqsUpTo(S, n) ==
  IF n = 0 THEN { << >> }
  ELSE LET shorter == SeqsUpTo(S, n - 1)
       IN  shorter \cup { Append(s, x) : s \in { t \in shorter : Len(t) = n - 1 }, x \in S }

EncodePixelBytes == {0, 77, 255}

\* what the pipeline can return in each specification
PipelineImages == { << 0 >>, << 255 >> }
EncodeImages == SeqsUpTo(EncodePixelBytes, MaxEncodeLen)
SessionImages == { << 0 >> }

\* ------------------------------------------------------------- Init
StartOfRun ==
  /\ pc = "comprehension"
  /\ comp = << >>
  /\ image_urls = << >>
  /\ html_content = << >>
  /\ temp_file = << >>
  /\ html_page_path = << >>
  /\ assigned = {}
  /\ raised = "none"
  /\ pipeline_calls = << >>
  /\ calls = [create |-> 0, display |-> 0]

InitWith(counts) ==
  /\ StartOfRun
  /\ run = 1
  /\ prompt \in Prompts
  /\ number_of_images \in counts
  /\ fs \in {EmptyDir, WithFile(EmptyDir, ForeignName, ForeignContent)}
  /\ created = << >>
  /\ galleries = << >>
  /\ browser = << >>

Init == InitWith(-1 .. MaxImages)

\* ---------------------------------------------------------- actions
\* ProcessImage with the result kept per prompt: a second call with the
\* same prompt returns the first result and does not call the pipeline
ProcessImageCached(images) ==
  /\ pc = "comprehension"
  /\ Len(comp) < RangeLen(number_of_images)
  /\ IF comp # << >>
     THEN /\ comp' = Append(comp, comp[1])
          /\ pipeline_calls' = pipeline_calls
     ELSE \E image \in images :
            /\ pipeline_calls' = Append(pipeline_calls,
                 [prompt |-> prompt, num_inference_steps |-> num_inference_steps,
                  guidance_scale |-> guidance_scale, ok |-> TRUE, image |-> image])
            /\ comp' = Append(comp, DataUri(image))
  /\ UNCHANGED << pc, run, prompt, number_of_images, image_urls, html_content,
                  temp_file, html_page_path, assigned, raised, fs, calls,
                  created, galleries, browser >>

\* One iteration of the comprehension: process_image(prompt) calls the
\* pipeline once, encodes the image it returns and the result is appended.
ProcessImage(images) ==
  /\ pc = "comprehension"
  /\ Len(comp) < RangeLen(number_of_images)
  /\ \E image \in images :
       /\ pipeline_calls' = Append(pipeline_calls,
            [prompt |-> prompt, num_inference_steps |-> num_inference_steps,
             guidance_scale |-> guidance_scale, ok |-> TRUE, image |-> image])
       /\ comp' = Append(comp, DataUri(image))
  /\ UNCHANGED << pc, run, prompt, number_of_images, image_urls, html_content,
                  temp_file, html_page_path, assigned, raised, fs, calls,
                  created, galleries, browser >>

\* ProcessImageRaises with the failure caught and the images generated so
\* far delivered: the gallery is built from the partial list
ProcessImageRaisesPartialGallery ==
  /\ pc = "comprehension"
  /\ Len(comp) < RangeLen(number_of_images)
  /\ pipeline_calls' = Append(pipeline_calls,
       [prompt |-> prompt, num_inference_steps |-> num_inference_steps,
        guidance_scale |-> guidance_scale, ok |-> FALSE, image |-> << >>])
  /\ raised' = "process_image"
  /\ image_urls' = comp
  /\ assigned' = assigned \cup {"image_urls"}
  /\ calls' = [calls EXCEPT !.create = @ + 1]
  /\ html_content' = HtmlContent(comp)
  /\ \E name \in TempNames \ DOMAIN fs :
       /\ fs' = WithFile(fs, name, << >>)
       /\ temp_file' = name
       /\ created' = Append(created, [run |-> run, name |-> name])
  /\ pc' = "write"
  /\ UNCHANGED << run, prompt, number_of_images, comp, html_page_path,
                  galleries, browser >>

\* One iteration of the comprehension in which the pipeline raises: nothing
\* catches it, the list under construction is dropped and the cell ends.
ProcessImageRaises ==
  /\ pc = "comprehension"
  /\ Len(comp) < RangeLen(number_of_images)
  /\ pipeline_calls' = Append(pipeline_calls,
       [prompt |-> prompt, num_inference_steps |-> num_inference_steps,
        guidance_scale |-> guidance_scale, ok |-> FALSE, image |-> << >>])
  /\ comp' = << >>
  /\ pc' = "failed"
  /\ raised' = "process_image"
  /\ UNCHANGED << run, prompt, number_of_images, image_urls, html_content,
                  temp_file, html_page_path, assigned, fs, calls,
                  created, galleries, browser >>

\* EnterCreate without waiting for the last image
EnterCreateEarly ==
  /\ pc = "comprehension"
  /\ Len(comp) <= RangeLen(number_of_images)
  /\ image_urls' = comp
  /\ calls' = [calls EXCEPT !.create = @ + 1]
  /\ html_content' = HtmlContent(comp)

\* The comprehension is complete: image_urls is bound and
\* create_html_page_with_images(image_urls) is entered and builds html_content.
EnterCreate ==
  /\ pc = "comprehension"
  /\ Len(comp) = RangeLen(number_of_images)
  /\ image_urls' = comp
  /\ calls' = [calls EXCEPT !.create = @ + 1]
  /\ html_content' = HtmlContent(comp)

\* FreeNames without the exclusive open: any name, taken or not
FreeNamesNotExclusive == TempNames

\* the names NamedTemporaryFile may pick: it opens exclusively, so never
\* the name of a file that exists
FreeNames == TempNames \ DOMAIN fs

\* create_html_page_with_images up to the opening of the temporary file:
\* a new, empty file with a fresh name.
CreateOpen ==
  /\ EnterCreate
  /\ \E name \in FreeNames :
       /\ fs' = WithFile(fs, name, << >>)
       /\ temp_file' = name
       /\ created' = Append(created, [run |-> run, name |-> name])
  /\ assigned' = assigned \cup {"image_urls"}
  /\ pc' = "write"
  /\ UNCHANGED << run, prompt, number_of_images, comp, html_page_path, raised,
                  pipeline_calls, galleries, browser >>

\* NamedTemporaryFile raises (no writable temp directory): no file.
CreateOpenRaises ==
  /\ EnterCreate
  /\ assigned' = assigned \cup {"image_urls"}
  /\ pc' = "failed"
  /\ raised' = "tempfile"
  /\ UNCHANGED << run, prompt, number_of_images, comp, temp_file, html_page_path,
                  fs, pipeline_calls, created, galleries, browser >>

\* CreateWrite returning while the document is still in the buffer
CreateWriteUnflushed ==
  /\ pc = "write"
  /\ fs' = fs
  /\ html_page_path' = PathOf(temp_file)
  /\ assigned' = assigned \cup {"html_page_path"}
  /\ galleries' = Append(galleries,
       [run |-> run, name |-> temp_file, urls |-> image_urls, content |-> html_content])
  /\ temp_file' = << >>
  /\ pc' = "display"
  /\ UNCHANGED << run, prompt, number_of_images, comp, image_urls, html_content,
                  raised, pipeline_calls, calls, created, browser >>

\* temp_file.write(html_content); return temp_file.name: the document is
\* on disk, the file is closed and kept, main binds html_page_path.
CreateWrite ==
  /\ pc = "write"
  /\ fs' = [fs EXCEPT ![temp_file] = html_content]
  /\ html_page_path' = PathOf(temp_file)
  /\ assigned' = assigned \cup {"html_page_path"}
  /\ galleries' = Append(galleries,
       [run |-> run, name |-> temp_file, urls |-> image_urls, content |-> html_content])
  /\ temp_file' = << >>
  /\ pc' = "display"
  /\ UNCHANGED << run, prompt, number_of_images, comp, image_urls, html_content,
                  raised, pipeline_calls, calls, created, browser >>

PartialLengths(content) ==
  { k \in 0 .. MaxPartial : k < Len(content) }

\* CreateWriteRaises with the file deleted on close (delete=True)
CreateWriteRaisesDeletes ==
  /\ pc = "write"
  /\ fs' = [n \in DOMAIN fs \ {temp_file} |-> fs[n]]
  /\ temp_file' = << >>
  /\ pc' = "failed"
  /\ raised' = "write"
  /\ UNCHANGED << run, prompt, number_of_images, comp, image_urls, html_content,
                  html_page_path, assigned, pipeline_calls, calls, created,
                  galleries, browser >>

\* The write raises (disk full): the with block closes the file, which was
\* opened with delete=False and stays, holding the part that was written.
CreateWriteRaises ==
  /\ pc = "write"
  /\ \E k \in PartialLengths(html_content) :
       fs' = [fs EXCEPT ![temp_file] = SubSeq(html_content, 1, k)]
  /\ temp_file' = << >>
  /\ pc' = "failed"
  /\ raised' = "write"
  /\ UNCHANGED << run, prompt, number_of_images, comp, image_urls, html_content,
                  html_page_path, assigned, pipeline_calls, calls, created,
                  galleries, browser >>

\* display_in_browser(html_page_path): one webbrowser.open request, whose
\* result is not looked at.
DisplayInBrowser ==
  /\ pc = "display"
  /\ browser' = Append(browser,
       [run |-> run, url |-> FileUrl(html_page_path), new |-> browser_new])
  /\ calls' = [calls EXCEPT !.display = @ + 1]
  /\ pc' = "done"
  /\ UNCHANGED << run, prompt, number_of_images, comp, image_urls, html_content,
                  temp_file, html_page_path, assigned, raised, fs, pipeline_calls,
                  created, galleries >>

\* The main cell is executed again, in a new process: everything but the
\* temp directory and the browser starts afresh.
NewRun(counts, maxruns) ==
  /\ pc \in {"done", "failed"}
  /\ run < maxruns
  /\ run' = run + 1
  /\ prompt' \in Prompts
  /\ number_of_images' \in counts
  /\ pc' = "comprehension"
  /\ comp' = << >>
  /\ image_urls' = << >>
  /\ html_content' = << >>
  /\ temp_file' = << >>
  /\ html_page_path' = << >>
  /\ assigned' = {}
  /\ raised' = "none"
  /\ pipeline_calls' = << >>
  /\ calls' = [create |-> 0, display |-> 0]
  /\ UNCHANGED << fs, created, galleries, browser >>

Next ==
  \/ ProcessImage(PipelineImages)
  \/ ProcessImageRaises
  \/ CreateOpen
  \/ CreateOpenRaises
  \/ CreateWrite
  \/ CreateWriteRaises
  \/ DisplayInBrowser
  \/ NewRun(-1 .. MaxImages, MaxRuns)

Spec == Init /\ [][Next]_vars

\* The encoding alone: runs that stop when the comprehension is complete,
\* with a wider choice of images.
InitEncode == InitWith(1 .. 2)

NextEncode == ProcessImage(EncodeImages)

SpecEncode == InitEncode /\ [][NextEncode]_vars

\* One run with a count up to and beyond the documented session limit.
InitSession == InitWith(0 .. MaxSessionImages)

NextSession ==
  \/ ProcessImage(SessionImages)
  \/ ProcessImageRaises
  \/ CreateOpen
  \/ CreateOpenRaises
  \/ CreateWrite
  \/ CreateWriteRaises
  \/ DisplayInBrowser

SpecSession == InitSession /\ [][NextSession]_vars

\* ------------------------------------------------- reading a page back
\* the number of <img> tags of a page
ImgCount(content) ==
  Cardinality({ i \in 1 .. Len(content) : content[i] = IMG_OPEN })

\* the position of the first token t of s, or Len(s) + 1
FirstAt(s, t) ==
  CHOOSE k \in 1 .. Len(s) + 1 :
    /\ k = Len(s) + 1 \/ s[k] = t
    /\ \A j \in 1 .. k - 1 : s[j] # t

\* the src values of the <img> tags of a page, in document order: what
\* stands between <img src=" and the next closing quote
RECURSIVE ImgSrcs(_)
ImgSrcs(content) ==
  IF content = << >> THEN << >>
  ELSE IF Head(content) = IMG_OPEN THEN
    LET rest == Tail(content)
        k == FirstAt(rest, IMG_CLOSE)
    IN  << SubSeq(rest, 1, k - 1) >> \o ImgSrcs(SubSeq(rest, k + 1, Len(rest)))
  ELSE ImgSrcs(Tail(content))

\* the payload of a Data URI: what follows the prefix
Payload(uri) == Tail(uri)

Base64Chars == { Base64Alphabet[i] : i \in 1 .. 64 } \cup { Base64Pad }

\* the count the claims call N
N == RangeLen(number_of_images)

\* this run's entries of a history
OfRun(h) == { i \in 1 .. Len(h) : h[i].run = run }

\* the gallery this run returned, when it has returned one
Returned == pc \in {"display", "done"}
ThisGallery == galleries[Len(galleries)]

\* ------------------------------------------------------------ claims

\* C1: in a run with number_of_images >= 0 in which no call failed, the
\* comprehension produced exactly N Data URIs, the k-th being the one
\* process_image made of the k-th image generated, and the file written
\* holds exactly N <img> tags whose src values are those URIs in that
\* order; for N = 0 the page is the head directly followed by the tail.
C1_GalleryHoldsAllImagesInOrder ==
  (Returned /\ number_of_images >= 0) =>
    LET page == fs[ThisGallery.name]
    IN  /\ Len(image_urls) = number_of_images
        /\ Len(pipeline_calls) = number_of_images
        /\ \A k \in 1 .. number_of_images :
             image_urls[k] = DataUri(pipeline_calls[k].image)
        /\ ImgCount(page) = number_of_images
        /\ ImgSrcs(page) = image_urls
        /\ number_of_images = 0 => page = << HTML_HEAD, HTML_TAIL >>

C1_Witness ==
  /\ pc = "done"
  /\ number_of_images = 2
  /\ pipeline_calls[1].image # pipeline_calls[2].image
  /\ ImgCount(fs[ThisGallery.name]) = 2

\* C2: when a call of process_image has failed, at any position, the run
\* has ended there: the list under construction is gone, image_urls was
\* never bound, create_html_page_with_images and display_in_browser were
\* not called, this run created and wrote no file, and nothing was opened.
C2_GenerationFailureEndsRun ==
  raised = "process_image" =>
    /\ pc = "failed"
    /\ ~ pipeline_calls[Len(pipeline_calls)].ok
    /\ comp = << >>
    /\ assigned = {}
    /\ calls.create = 0
    /\ calls.display = 0
    /\ OfRun(created) = {}
    /\ OfRun(galleries) = {}
    /\ OfRun(browser) = {}
    /\ \A n \in DOMAIN fs :
         \/ fs[n] = ForeignContent
         \/ \E i \in 1 .. Len(created) : created[i].name = n /\ created[i].run < run

C2_Witness ==
  /\ raised = "process_image"
  /\ number_of_images = 2
  /\ Len(pipeline_calls) = 2
  /\ pipeline_calls[1].ok

\* C3: create_html_page_with_images is called at most once in a run and
\* only when all N calls of process_image have returned; display_in_browser
\* is called at most once and only after the file has been written, with
\* the file:// URL of the path that was returned; a run that ends without
\* a failure has made each of the two calls exactly once.
C3_GenerateThenBuildThenDisplay ==
  /\ calls.create <= 1
  /\ calls.display <= 1
  /\ calls.create = 1 =>
       /\ Len(pipeline_calls) = N
       /\ \A k \in 1 .. N : pipeline_calls[k].ok
       /\ Len(image_urls) = N
  /\ pc = "comprehension" => calls.create = 0
  /\ pc \in {"comprehension", "write", "display"} => calls.display = 0
  /\ calls.display = 1 =>
       /\ calls.create = 1
       /\ Cardinality(OfRun(galleries)) = 1
       /\ Cardinality(OfRun(browser)) = 1
       /\ fs[ThisGallery.name] = ThisGallery.content
       /\ html_page_path = << TEMP_DIR >> \o ThisGallery.name
       /\ browser[Len(browser)].url = << "file://" >> \o html_page_path
       /\ browser[Len(browser)].new = 2
  /\ pc = "done" => calls.create = 1 /\ calls.display = 1
  /\ Cardinality(OfRun(browser)) = calls.display

C3_Witness ==
  /\ pc = "done"
  /\ number_of_images = 2
  /\ calls = [create |-> 1, display |-> 1]
  /\ Len(browser) = run

\* C4: every step keeps every file that exists, and changes the content of
\* none but the file the running call has just created; a call that gets
\* its temporary file adds exactly one file, under a .html name no file
\* had, and no other step adds a file.  The files created so far have
\* pairwise different names, all still exist, each returned gallery still
\* holds what was written to it, and after run successful runs in a row
\* there are exactly run gallery files.
C4_Kept ==
  /\ \A i, j \in 1 .. Len(created) : created[i].name = created[j].name => i = j
  /\ \A i \in 1 .. Len(created) : created[i].name \in DOMAIN fs
  /\ \A i \in 1 .. Len(galleries) : fs[galleries[i].name] = galleries[i].content
  /\ Cardinality(OfRun(created)) <= 1
  /\ (pc = "done" /\ Len(browser) = run) =>
       Cardinality({ created[i].name : i \in 1 .. Len(created) }) = run

C4_Step ==
  /\ \A n \in DOMAIN fs :
       /\ n \in DOMAIN fs'
       /\ (n # temp_file => fs'[n] = fs[n])
  /\ IF pc = "comprehension" /\ pc' = "write"
     THEN \E n \in TempNames :
            /\ n \notin DOMAIN fs
            /\ DOMAIN fs' = DOMAIN fs \cup {n}
            /\ n[Len(n)] = ".html"
            /\ fs'[n] = << >>
            /\ created' = Append(created, [run |-> run, name |-> n])
     ELSE DOMAIN fs' = DOMAIN fs /\ created' = created

C4_OneNewFileOthersUntouched == [] C4_Kept /\ [][C4_Step]_vars

C4_Witness ==
  /\ run = 2
  /\ pc = "done"
  /\ Len(galleries) = 2
  /\ Cardinality(DOMAIN fs) = 3
  /\ \E n \in DOMAIN fs : fs[n] = ForeignContent
  /\ galleries[1].content # galleries[2].content

\* C5: nothing is in the temporary file before the write; from the return
\* of create_html_page_with_images on, in this run and in every later one,
\* the file holds exactly the head, one <img> tag per URL of the list and
\* the tail, also at and after the moment the browser request was made.
C5_FileIsTheGalleryDocument ==
  /\ pc = "write" => fs[temp_file] = << >>
  /\ \A i \in 1 .. Len(galleries) :
       LET g == galleries[i]
       IN  fs[g.name] = << HTML_HEAD >> \o ImgTags(g.urls) \o << HTML_TAIL >>
  /\ Returned => ThisGallery.urls = image_urls /\ ThisGallery.name \in DOMAIN fs
  /\ \A b \in 1 .. Len(browser) :
       \E i \in 1 .. Len(galleries) :
         /\ galleries[i].run = browser[b].run
         /\ browser[b].url = FileUrl(PathOf(galleries[i].name))

C5_Witness ==
  /\ run = 2
  /\ Len(browser) = 1
  /\ browser[1].run = 1
  /\ pc = "failed"
  /\ raised = "write"
  /\ Len(galleries[1].urls) = 2

\* C6: two calls of create_html_page_with_images with the same list of
\* URLs, in whatever runs and under whatever prompts, have written the
\* same content into two different files.
C6_SameListSameContent ==
  \A i, j \in 1 .. Len(galleries) :
    (i # j /\ galleries[i].urls = galleries[j].urls) =>
      /\ fs[galleries[i].name] = fs[galleries[j].name]
      /\ galleries[i].content = galleries[j].content
      /\ galleries[i].name # galleries[j].name

C6_Witness ==
  /\ Len(galleries) = 2
  /\ galleries[1].urls = galleries[2].urls
  /\ Len(galleries[1].urls) = 2
  /\ pc = "done"
  /\ fs[galleries[1].name] = fs[galleries[2].name]

\* C7: every Data URI process_image has returned is the prefix
\* data:image/png;base64, followed by base64 text (whole groups of four
\* characters of the alphabet) that decodes to exactly the PNG stream of the
\* image the pipeline returned in that call, which starts with the PNG
\* signature.
C7_DataUriDecodesToThePng ==
  \A k \in 1 .. Len(comp) :
    LET uri == comp[k]
        png == PNG_SIGNATURE \o pipeline_calls[k].image
        decoded == b64decode(Payload(uri))
    IN  /\ uri[1] = "data:image/png;base64,"
        /\ \A i \in 1 .. Len(Payload(uri)) : Payload(uri)[i] \in Base64Chars
        /\ Len(Payload(uri)) % 4 = 0
        /\ decoded = png
        /\ IsPng(decoded)

C7_Witness ==
  /\ Len(comp) = 2
  /\ Len(pipeline_calls[1].image) = 2
  /\ Len(pipeline_calls[2].image) = 3
  /\ comp[1][Len(comp[1])] = Base64Pad
  /\ b64decode(Payload(comp[1])) = << 137, 80, 78, 71, 13, 10, 26, 10 >> \o pipeline_calls[1].image

\* the Data URIs of this run so far
Uris == IF pc = "comprehension" THEN comp ELSE image_urls

\* every call of process_image so far made one call of the pipeline, with
\* this run's prompt, one inference step and guidance scale 0, and returned
\* the Data URI of the image that call produced; a complete comprehension
\* made N calls
OneInvocationPerCall ==
  /\ \A k \in 1 .. Len(pipeline_calls) :
       /\ pipeline_calls[k].prompt = prompt
       /\ pipeline_calls[k].num_inference_steps = 1
       /\ pipeline_calls[k].guidance_scale = 0
  /\ raised # "process_image" =>
       /\ Len(pipeline_calls) = Len(Uris)
       /\ \A k \in 1 .. Len(Uris) :
            pipeline_calls[k].ok /\ Uris[k] = DataUri(pipeline_calls[k].image)
  /\ calls.create = 1 => Len(pipeline_calls) = N

\* C8 as stated: one invocation per call, N invocations in a run, and the
\* Data URIs of a run pairwise distinct.
C8_InvocationsAndDistinctUris ==
  /\ OneInvocationPerCall
  /\ \A i, j \in 1 .. Len(Uris) : i # j => Uris[i] # Uris[j]

\* C8 as amended: one invocation per call, N invocations in a run, and two
\* Data URIs of a run are equal exactly when the pipeline returned equal
\* images in the two calls.
C8_InvocationsAndUrisFollowImages ==
  /\ OneInvocationPerCall
  /\ raised # "process_image" =>
       \A i, j \in 1 .. Len(Uris) :
         (Uris[i] = Uris[j]) <=> (pipeline_calls[i].image = pipeline_calls[j].image)

C8_Witness ==
  /\ pc = "done"
  /\ Len(pipeline_calls) = 2
  /\ pipeline_calls[1].prompt = pipeline_calls[2].prompt
  /\ pipeline_calls[1].image = pipeline_calls[2].image
  /\ image_urls[1] = image_urls[2]

\* C9: a run never makes more than 10 calls of process_image and no
\* gallery holds more than 10 <img> tags.
C9_AtMostTenImages ==
  /\ Len(pipeline_calls) <= SessionLimit
  /\ \A i \in 1 .. Len(galleries) : ImgCount(fs[galleries[i].name]) <= SessionLimit

\* C10: when create_html_page_with_images has failed, the run has ended
\* without a call of display_in_browser and without a path bound or a
\* gallery returned; a failure before the file was created leaves no file
\* of this run, a failure in the write leaves this run's file in the
\* directory, holding a proper prefix of the document.
C10_BuildFailureEndsRun ==
  raised \in {"tempfile", "write"} =>
    /\ pc = "failed"
    /\ calls.create = 1
    /\ calls.display = 0
    /\ OfRun(browser) = {}
    /\ OfRun(galleries) = {}
    /\ "html_page_path" \notin assigned
    /\ html_page_path = << >>
    /\ raised = "tempfile" => OfRun(created) = {}
    /\ raised = "write" =>
         /\ Cardinality(OfRun(created)) = 1
         /\ \A i \in OfRun(created) :
              /\ created[i].name \in DOMAIN fs
              /\ fs[created[i].name] # html_content
              /\ Len(fs[created[i].name]) < Len(html_content)
              /\ fs[created[i].name] = SubSeq(html_content, 1, Len(fs[created[i].name]))

C10_Witness ==
  /\ raised = "write"
  /\ number_of_images = 1
  /\ html_content = HtmlContent(image_urls)
  /\ \E i \in OfRun(created) : fs[created[i].name] # html_content

====
